---- MODULE Spec2Model ----
(***************************************************************************)
(* Clutter: tracked-item lifecycle (track / pull / commit), the deletion   *)
(* and move recovery handlers, and the filesystem they act on.             *)
(*                                                                         *)
(* Modelling domain.  A directory is a function from entry names to nodes; *)
(* a node is absent, a regular file with a content value, or a             *)
(* sub-directory whose whole subtree is one opaque value.  User content    *)
(* (originals, sandbox edits) never uses the entry name ".clutter_sandbox" *)
(* which is reserved for the sandbox metadata file.  The foreground CLI    *)
(* runs one operation at a time (pc); the user edits the filesystem only   *)
(* between operations.  The wall clock `now` counts whole seconds.         *)
(***************************************************************************)
EXTENDS Integers, Sequences, FiniteSets, TLC

VARIABLES
    fs,           \* filesystem objects at the original paths and their .clutter_temp / .clutter_bak siblings
    sandboxes,    \* BASE_PATH/sandboxes/<name>
    snapshots,    \* BASE_PATH/snapshots/<name>/<tag>_<ts>
    refs,         \* BASE_PATH/refs/<name> symlink target
    registry,     \* rows of table tracked_items
    last_worked,  \* content of RESUME_STATE_PATH
    changes,      \* rows of table changes (self.change_log holds the same entries)
    now,          \* int(time.time())
    pc,           \* position of the foreground operation
    cur,          \* local variables of the foreground operation
    ret,          \* outcome of the most recent operation
    steps,        \* operations, user edits and clock ticks so far
    watch_pc,     \* position of watch(): not started, in its monitoring loop, joining the observer, returned
    change_log_json,  \* content of change_log.json
    events        \* notifications the observer has queued for the callback thread

vars == <<fs, sandboxes, snapshots, refs, registry, last_worked, changes, now, pc, cur, ret, steps,
          watch_pc, change_log_json, events>>
\* the state of watch()'s own thread and the file it writes on exit
wvars == <<watch_pc, change_log_json, events>>

(***************************************************************************)
(* Bounds                                                                  *)
(***************************************************************************)
MaxSteps == 5

Paths == {"/w/a", "/w/b"}
Names == {"n1", "n2"}
Meta == ".clutter_sandbox"
UserEntries == {"a", "b"}
Entries == UserEntries \cup {Meta}

Basename(p) == IF p = "/w/a" THEN "a" ELSE "b"
\* the names work() derives from a path: its basename, then basename_1, basename_2, ...
AutoNames == {"a", "a_1", "a_2", "b", "b_1", "b_2"}
AllNames == Names \cup AutoNames
TempPath(p) == p \o ".clutter_temp"
BakPath(p) == p \o ".clutter_bak"
FsPaths == Paths \cup {TempPath(p) : p \in Paths} \cup {BakPath(p) : p \in Paths}

(***************************************************************************)
(* Filesystem objects                                                      *)
(***************************************************************************)
NoNode == [k |-> "none", v |-> 0]
FileNode(c) == [k |-> "file", v |-> c]
DirNode(c) == [k |-> "dir", v |-> c]
EmptyEnts == [e \in Entries |-> NoNode]

Absent == [kind |-> "none", v |-> 0, ents |-> EmptyEnts]
File(c) == [kind |-> "file", v |-> c, ents |-> EmptyEnts]
Dir(m) == [kind |-> "dir", v |-> 0, ents |-> m]

Exists(o) == o.kind # "none"
IsDir(o) == o.kind = "dir"

\* the metadata file written by track (records original_path) and by sandbox (no original_path)
MetaCode(p) == IF p = "/w/a" THEN 1 ELSE IF p = "/w/b" THEN 2 ELSE 0
MetaOnly(p) == [EmptyEnts EXCEPT ![Meta] = FileNode(MetaCode(p))]

\* entries of a directory other than the metadata file
\* faulty variant: the copy loop copies nothing
NonMeta_Nothing(m) == EmptyEnts
NonMeta(m) == [m EXCEPT ![Meta] = NoNode]
\* faulty variant: the metadata file counts as content
HasContent_AnyEntry(sb) == Exists(sb)
\* any(f.name != '.clutter_sandbox' for f in sandbox_path.iterdir()) if sandbox_path.exists() else False
HasContent(sb) == Exists(sb) /\ \E e \in UserEntries : sb.ents[e].k # "none"

\* shutil.copy2(src_file, dst) where dst is an entry of directory m: a file is
\* created or overwritten; an existing sub-directory receives the file inside it
CopyFileInto(m, e, c) ==
    IF m[e].k = "dir"
    THEN [m EXCEPT ![e] = DirNode(10 * c + (m[e].v % 10))]
    ELSE [m EXCEPT ![e] = FileNode(c)]

NoSnap == [name |-> "", tag |-> "", ts |-> -1]
SnapKey(n, tag, t) == [name |-> n, tag |-> tag, ts |-> t]
\* faulty variant: an existing destination goes unnoticed and is written over
SnapExists_Never(k) == FALSE
SnapExists(k) == k \in DOMAIN snapshots
SnapAt(k) == IF SnapExists(k) THEN snapshots[k] ELSE Absent
PutSnap(k, o) == (k :> o) @@ snapshots

NoTime == -1
Row(p, n, s, lp, lc, sp) ==
    [path |-> p, name |-> n, status |-> s, last_pulled |-> lp, last_committed |-> lc, snapshot_path |-> sp]

\* faulty variant: the name lookup finds nothing
RowsByName_None(n) == {}
RowsByName(n) == {r \in registry : r.name = n}
\* faulty variant: the WHERE path = ? clause is missing
RowsByPath_All(p) == registry
\* faulty variant: the path column carries no key, a lookup by path finds nothing
RowsByPath_None(p) == {}
RowsByPath(p) == {r \in registry : r.path = p}
\* SELECT ... WHERE name = ? OR path = ?
RowsByNameOrPath(x) == {r \in registry : r.name = x \/ r.path = x}

\* locals of the running operation: the resolved row, snapshot_dest, has_content / has_ghost, the answer read by input()
\* (dest is the destination path of the move event a watcher callback is handling;
\*  orig records the original as commit found it, for the properties about the replace sequence)
NoCur == [name |-> "", path |-> "", snap |-> NoSnap, has_content |-> FALSE, choice |-> "", dest |-> "",
          orig |-> Absent]
Cur(n, p, sn, hc, ch) == [name |-> n, path |-> p, snap |-> sn, has_content |-> hc, choice |-> ch, dest |-> "",
                          orig |-> Absent]
Ret(op, arg, res, asked) == [op |-> op, arg |-> arg, res |-> res, asked |-> asked]
NoRet == Ret("", "", "", FALSE)

Init ==
    /\ \E oa \in {File(1), Dir([EmptyEnts EXCEPT !["a"] = FileNode(1)])}, ob \in {Absent, File(1)} :
           fs = [q \in FsPaths |-> IF q = "/w/a" THEN oa ELSE IF q = "/w/b" THEN ob ELSE Absent]
    /\ sandboxes = [n \in AllNames |-> Absent]
    /\ snapshots = <<>>
    /\ refs = [n \in AllNames |-> ""]
    /\ registry = {}
    /\ last_worked = ""
    /\ changes = <<>>
    /\ now = 0
    /\ pc = "idle"
    /\ cur = NoCur
    /\ ret = NoRet
    /\ steps = 0
    /\ watch_pc = "off"
    /\ change_log_json = <<>>
    /\ events = <<>>

(***************************************************************************)
(* Registry statements                                                     *)
(***************************************************************************)
\* faulty variant: the UPDATE is never issued
SetStatusByName_Noop(reg, n, s) == reg
\* faulty variant: the row is deleted instead of updated
SetStatusByPath_Untrack(reg, p, s) == {r \in reg : r.path # p}
\* UPDATE tracked_items SET status = ? WHERE name = ?
SetStatusByName(reg, n, s) ==
    {IF r.name = n THEN [r EXCEPT !.status = s] ELSE r : r \in reg}
\* UPDATE tracked_items SET status = ? WHERE path = ?
SetStatusByPath(reg, p, s) ==
    {IF r.path = p THEN [r EXCEPT !.status = s] ELSE r : r \in reg}
\* faulty variant: the UPDATE has no WHERE clause
SetPullMeta_AllRows(reg, n, t, sp) ==
    {[r EXCEPT !.last_pulled = t, !.status = "pulled", !.snapshot_path = sp] : r \in reg}
\* UPDATE tracked_items SET last_pulled = ?, status = 'pulled', snapshot_path = ? WHERE name = ?
SetPullMeta(reg, n, t, sp) ==
    {IF r.name = n THEN [r EXCEPT !.last_pulled = t, !.status = "pulled", !.snapshot_path = sp] ELSE r : r \in reg}
\* UPDATE tracked_items SET last_committed = ?, status = 'committed', snapshot_path = ? WHERE name = ?
SetCommitMeta(reg, n, t, sp) ==
    {IF r.name = n THEN [r EXCEPT !.last_committed = t, !.status = "committed", !.snapshot_path = sp] ELSE r : r \in reg}
\* faulty variant: the UPDATE is never issued
SetPath_Noop(reg, src, dest) == reg
\* UPDATE tracked_items SET path = ? WHERE path = ?
SetPath(reg, src, dest) ==
    {IF r.path = src THEN [r EXCEPT !.path = dest] ELSE r : r \in reg}

\* an operation, a user edit or a clock tick starts only within the step budget
Budget ==
    /\ steps < MaxSteps
    /\ steps' = steps + 1

Finish(op, arg, res, asked) ==
    /\ pc' = "done"
    /\ ret' = Ret(op, arg, res, asked)

\* the operation has returned (or died with its exception); its locals are gone
Return ==
    /\ UNCHANGED wvars
    /\ pc = "done"
    /\ pc' = "idle"
    /\ cur' = NoCur
    /\ ret' = NoRet
    /\ UNCHANGED <<fs, sandboxes, snapshots, refs, registry, last_worked, changes, now, steps>>

(***************************************************************************)
(* track(path, name)                                                       *)
(***************************************************************************)
TrackBegin(p, n) ==
    /\ UNCHANGED wvars
    /\ pc = "idle"
    /\ Budget
    /\ cur' = [NoCur EXCEPT !.name = n, !.path = p]
    /\ UNCHANGED <<fs, sandboxes, snapshots, refs, last_worked, changes, now>>
    /\ IF ~Exists(fs[p])
       THEN Finish("track", n, "no_path", FALSE) /\ UNCHANGED registry
       ELSE IF RowsByName(n) # {}
       THEN Finish("track", n, "name_in_use", FALSE) /\ UNCHANGED registry
       ELSE IF RowsByPath(p) # {}
       THEN \* PRIMARY KEY(path): sqlite3.IntegrityError leaves the table as it was
            Finish("track", n, "crash", FALSE) /\ UNCHANGED registry
       ELSE /\ registry' = registry \cup {Row(p, n, "tracked", NoTime, NoTime, NoSnap)}
            /\ pc' = "track_ref"
            /\ UNCHANGED ret

TrackRef ==
    /\ UNCHANGED wvars
    /\ UNCHANGED steps
    /\ pc = "track_ref"
    /\ refs' = [refs EXCEPT ![cur.name] = cur.path]
    /\ pc' = "track_sandbox"
    /\ UNCHANGED <<fs, sandboxes, snapshots, registry, last_worked, changes, now, cur, ret>>

\* sandbox_path.mkdir(parents=True, exist_ok=True); json.dump(...) into .clutter_sandbox
WriteMeta(sb, p) ==
    IF Exists(sb) THEN Dir([sb.ents EXCEPT ![Meta] = FileNode(MetaCode(p))])
    ELSE Dir(MetaOnly(p))

TrackSandbox ==
    /\ UNCHANGED wvars
    /\ UNCHANGED steps
    /\ pc = "track_sandbox"
    /\ sandboxes' = [sandboxes EXCEPT ![cur.name] = WriteMeta(sandboxes[cur.name], cur.path)]
    /\ Finish("track", cur.name, "ok", FALSE)
    /\ UNCHANGED <<fs, snapshots, refs, registry, last_worked, changes, now, cur>>

(***************************************************************************)
(* pull(name_or_path)                                                      *)
(***************************************************************************)
\* for item in sandbox_path.iterdir(): skip .clutter_sandbox, else rmtree / unlink
ClearSandbox(sb) == Dir([e \in Entries |-> IF e = Meta THEN sb.ents[e] ELSE NoNode])

\* faulty variant: the snapshot copies files only and skips sub-directories
PullSnapshot_FilesOnly(sb) == Dir([e \in Entries |-> IF sb.ents[e].k = "dir" THEN NoNode ELSE sb.ents[e]])
\* shutil.copytree(sandbox_path, snapshot_dest): the whole sandbox, metadata file included
PullSnapshot(sb) == sb

PullBegin(x) ==
    /\ UNCHANGED wvars
    /\ pc = "idle"
    /\ Budget
    /\ UNCHANGED <<fs, sandboxes, refs, registry, last_worked, changes, now>>
    /\ IF RowsByNameOrPath(x) = {}
       THEN /\ Finish("pull", x, "not_tracked", FALSE)
            /\ cur' = NoCur
            /\ UNCHANGED snapshots
       ELSE \E r \in RowsByNameOrPath(x) :
            LET sb == sandboxes[r.name]
                dest == SnapKey(r.name, "pre_pull", now)
            IN IF HasContent(sb)
               THEN IF SnapExists(dest)
                    THEN \* shutil.copytree onto an existing directory: FileExistsError
                         /\ Finish("pull", r.name, "crash", FALSE)
                         /\ cur' = Cur(r.name, r.path, dest, TRUE, "")
                         /\ UNCHANGED snapshots
                    ELSE /\ snapshots' = PutSnap(dest, PullSnapshot(sb))
                         /\ cur' = Cur(r.name, r.path, dest, TRUE, "")
                         /\ pc' = "pull_clear"
                         /\ UNCHANGED ret
               ELSE /\ cur' = Cur(r.name, r.path, NoSnap, FALSE, "")
                    /\ pc' = "pull_check"
                    /\ UNCHANGED ret
                    /\ UNCHANGED snapshots

PullClear ==
    /\ UNCHANGED wvars
    /\ UNCHANGED steps
    /\ pc = "pull_clear"
    /\ sandboxes' = [sandboxes EXCEPT ![cur.name] = ClearSandbox(sandboxes[cur.name])]
    /\ pc' = "pull_check"
    /\ UNCHANGED <<fs, snapshots, refs, registry, last_worked, changes, now, cur, ret>>

\* faulty variant: a single-file original is not copied
PullCopy_DirsOnly(sb, orig, p) ==
    LET base == IF Exists(sb) THEN sb.ents ELSE EmptyEnts
    IN IF IsDir(orig)
       THEN Dir([e \in Entries |-> IF orig.ents[e].k # "none" THEN orig.ents[e] ELSE base[e]])
       ELSE Dir(base)
\* the copy loop of pull: every child of a directory original, or the single file under its basename
PullCopy(sb, orig, p) ==
    LET base == IF Exists(sb) THEN sb.ents ELSE EmptyEnts
    IN IF IsDir(orig)
       THEN Dir([e \in Entries |-> IF orig.ents[e].k # "none" THEN orig.ents[e] ELSE base[e]])
       ELSE Dir(CopyFileInto(base, Basename(p), orig.v))

\* shutil.copytree(src, dst) of a child raises FileExistsError when dst exists
PullCopyFails(sb, orig) ==
    /\ IsDir(orig)
    /\ Exists(sb)
    /\ \E e \in Entries : orig.ents[e].k = "dir" /\ sb.ents[e].k # "none"

PullCheck ==
    /\ UNCHANGED wvars
    /\ UNCHANGED steps
    /\ pc = "pull_check"
    /\ UNCHANGED <<fs, snapshots, refs, last_worked, changes, now, cur>>
    /\ IF ~Exists(fs[cur.path])
       THEN /\ registry' = SetStatusByName(registry, cur.name, "ghost")
            /\ Finish("pull", cur.name, "ghost", FALSE)
            /\ UNCHANGED sandboxes
       ELSE IF PullCopyFails(sandboxes[cur.name], fs[cur.path])
       THEN /\ Finish("pull", cur.name, "crash", FALSE)
            /\ UNCHANGED <<sandboxes, registry>>
       ELSE /\ sandboxes' = [sandboxes EXCEPT ![cur.name] = PullCopy(sandboxes[cur.name], fs[cur.path], cur.path)]
            /\ pc' = "pull_db"
            /\ UNCHANGED <<registry, ret>>

PullDb ==
    /\ UNCHANGED wvars
    /\ UNCHANGED steps
    /\ pc = "pull_db"
    /\ registry' = SetPullMeta(registry, cur.name, now, cur.snap)
    /\ last_worked' = cur.name
    /\ Finish("pull", cur.name, "ok", FALSE)
    /\ UNCHANGED <<fs, sandboxes, snapshots, refs, changes, now, cur>>


(***************************************************************************)
(* commit(name_or_path)                                                    *)
(***************************************************************************)
\* faulty variant: the snapshot directory is created but nothing is copied into it
SnapshotOriginal_Empty(old, orig, p) == Dir(EmptyEnts)
\* the pre_commit snapshot: shutil.copytree of a directory original, or
\* mkdir(exist_ok=True) and shutil.copy2 of a single-file original
SnapshotOriginal(old, orig, p) ==
    IF IsDir(orig)
    THEN Dir(orig.ents)
    ELSE Dir(CopyFileInto(IF Exists(old) THEN old.ents ELSE EmptyEnts, Basename(p), orig.v))

\* os.rename(src, dst) succeeds onto nothing, file onto file, directory onto empty directory
RenameOk(src, dst) ==
    \/ ~Exists(dst)
    \/ src.kind = "file" /\ dst.kind = "file"
    \/ src.kind = "dir" /\ dst.kind = "dir" /\ dst.ents = EmptyEnts

\* os.path.isdir(original) or not os.path.exists(original) or any(item.is_dir() for item in items_to_copy)
UsesTempSwap(orig, sb) ==
    \/ IsDir(orig)
    \/ ~Exists(orig)
    \/ \E e \in UserEntries : sb.ents[e].k = "dir"

CommitBegin(x) ==
    /\ UNCHANGED wvars
    /\ pc = "idle"
    /\ Budget
    /\ UNCHANGED <<fs, sandboxes, refs, registry, last_worked, changes, now>>
    /\ IF RowsByNameOrPath(x) = {}
       THEN /\ Finish("commit", x, "not_tracked", FALSE)
            /\ cur' = NoCur
            /\ UNCHANGED snapshots
       ELSE \E r \in RowsByNameOrPath(x) :
            LET sb == sandboxes[r.name]
                orig == fs[r.path]
                dest == SnapKey(r.name, "pre_commit", now)
                next == IF UsesTempSwap(orig, sb) THEN "commit_temp" ELSE "commit_file"
            IN IF ~HasContent(sb)
               THEN /\ Finish("commit", r.name, "empty", FALSE)
                    /\ cur' = Cur(r.name, r.path, NoSnap, FALSE, "")
                    /\ UNCHANGED snapshots
               ELSE IF ~Exists(orig)
               THEN /\ cur' = Cur(r.name, r.path, NoSnap, TRUE, "")
                    /\ pc' = next
                    /\ UNCHANGED ret
                    /\ UNCHANGED snapshots
               ELSE IF IsDir(orig) /\ SnapExists(dest)
               THEN \* shutil.copytree onto an existing directory: FileExistsError
                    /\ Finish("commit", r.name, "crash", FALSE)
                    /\ cur' = [Cur(r.name, r.path, dest, TRUE, "") EXCEPT !.orig = orig]
                    /\ UNCHANGED snapshots
               ELSE /\ snapshots' = PutSnap(dest, SnapshotOriginal(SnapAt(dest), orig, r.path))
                    /\ cur' = [Cur(r.name, r.path, dest, TRUE, "") EXCEPT !.orig = orig]
                    /\ pc' = next
                    /\ UNCHANGED ret

\* items_to_copy copied into a fresh <path>.clutter_temp (an existing one is removed first)
CommitTemp ==
    /\ UNCHANGED wvars
    /\ UNCHANGED steps
    /\ pc = "commit_temp"
    /\ fs' = [fs EXCEPT ![TempPath(cur.path)] = Dir(NonMeta(sandboxes[cur.name].ents))]
    /\ pc' = "commit_bak"
    /\ UNCHANGED <<sandboxes, snapshots, refs, registry, last_worked, changes, now, cur, ret>>

\* what a running observer (observer.schedule(event_handler, path, recursive=True)) receives from
\* the operating system for a rename or a removal of an entry of the watched directory
MovedEvent(src, dest) == [type |-> "moved", src |-> src, dest |-> dest]
DeletedEvent(p) == [type |-> "deleted", src |-> p, dest |-> ""]
Notify(ev) == events' = IF watch_pc = "loop" THEN Append(events, ev) ELSE events

\* if os.path.exists(original_path): os.rename(original_path, bak_path)
CommitBak ==
    /\ UNCHANGED <<watch_pc, change_log_json>>
    /\ UNCHANGED steps
    /\ pc = "commit_bak"
    /\ UNCHANGED <<sandboxes, snapshots, refs, registry, last_worked, changes, now, cur>>
    /\ LET orig == fs[cur.path]
           bak == fs[BakPath(cur.path)]
       IN IF ~Exists(orig)
          THEN /\ pc' = "commit_swap"
               /\ UNCHANGED <<fs, ret, events>>
          ELSE IF RenameOk(orig, bak)
          THEN /\ fs' = [fs EXCEPT ![BakPath(cur.path)] = orig, ![cur.path] = Absent]
               /\ Notify(MovedEvent(cur.path, BakPath(cur.path)))
               /\ pc' = "commit_swap"
               /\ UNCHANGED ret
          ELSE /\ Finish("commit", cur.name, "crash", FALSE)
               /\ UNCHANGED <<fs, events>>

\* os.rename(temp_path, original_path)
CommitSwap ==
    /\ UNCHANGED <<watch_pc, change_log_json>>
    /\ UNCHANGED steps
    /\ pc = "commit_swap"
    /\ UNCHANGED <<sandboxes, snapshots, refs, registry, last_worked, changes, now, cur>>
    /\ LET temp == fs[TempPath(cur.path)]
       IN IF RenameOk(temp, fs[cur.path])
          THEN /\ fs' = [fs EXCEPT ![cur.path] = temp, ![TempPath(cur.path)] = Absent]
               /\ Notify(MovedEvent(TempPath(cur.path), cur.path))
               /\ pc' = "commit_rmbak"
               /\ UNCHANGED ret
          ELSE /\ Finish("commit", cur.name, "crash", FALSE)
               /\ UNCHANGED <<fs, events>>

\* if os.path.exists(bak_path): rmtree / remove
CommitRmBak ==
    /\ UNCHANGED <<watch_pc, change_log_json>>
    /\ UNCHANGED steps
    /\ pc = "commit_rmbak"
    /\ fs' = [fs EXCEPT ![BakPath(cur.path)] = Absent]
    /\ IF Exists(fs[BakPath(cur.path)]) THEN Notify(DeletedEvent(BakPath(cur.path))) ELSE UNCHANGED events
    /\ pc' = "commit_db"
    /\ UNCHANGED <<sandboxes, snapshots, refs, registry, last_worked, changes, now, cur, ret>>

\* faulty variant: the original is opened for writing and nothing is copied into it
CommitFileCopy_Truncates(orig, sb, p) == File(0)
\* single-file branch: src_file = sandbox_path / basename(original_path); copied only if it exists
CommitFileCopy(orig, sb, p) ==
    IF sb.ents[Basename(p)].k # "none" THEN File(sb.ents[Basename(p)].v) ELSE orig

CommitFile ==
    /\ UNCHANGED wvars
    /\ UNCHANGED steps
    /\ pc = "commit_file"
    /\ fs' = [fs EXCEPT ![cur.path] = CommitFileCopy(fs[cur.path], sandboxes[cur.name], cur.path)]
    /\ pc' = "commit_db"
    /\ UNCHANGED <<sandboxes, snapshots, refs, registry, last_worked, changes, now, cur, ret>>

\* faulty variant: commit also records the item as the one last worked on
CommitDb_SavesResume ==
    /\ UNCHANGED wvars
    /\ UNCHANGED steps
    /\ pc = "commit_db"
    /\ registry' = SetCommitMeta(registry, cur.name, now, cur.snap)
    /\ last_worked' = cur.name
    /\ Finish("commit", cur.name, "ok", FALSE)
    /\ UNCHANGED <<fs, sandboxes, snapshots, refs, changes, now, cur>>
CommitDb ==
    /\ UNCHANGED wvars
    /\ UNCHANGED steps
    /\ pc = "commit_db"
    /\ registry' = SetCommitMeta(registry, cur.name, now, cur.snap)
    /\ Finish("commit", cur.name, "ok", FALSE)
    /\ UNCHANGED <<fs, sandboxes, snapshots, refs, last_worked, changes, now, cur>>


(***************************************************************************)
(* handle_tracked_deletion(path)                                           *)
(* (the watcher's on_deleted callback delegates to it)                    *)
(***************************************************************************)
\* _is_under_symlink(path) or bool(self.sandbox_path): no manual symlinks, watch started without --sandbox
IsGreen(p) == FALSE

\* _log_change(change_type, path, dest_path, is_green)
LogChange(log, type, p, dest) ==
    Append(log, [type |-> type, path |-> p, dest |-> dest, is_green |-> IsGreen(p)])

DeleteChoices == {"r", "g", "d", ""}
MoveChoices == {"f", "g", "c", ""}

\* faulty variant: any existing sandbox counts as a ghost
HasGhost_AnySandbox(sb) == Exists(sb)
\* has_ghost: the sandbox exists and holds an entry other than .clutter_sandbox
HasGhost(sb) == Exists(sb) /\ \E e \in UserEntries : sb.ents[e].k # "none"

\* faulty variant: copytree without the ignore pattern
RestoreCopy_WithMeta(sb) == Dir(sb.ents)
\* shutil.copytree(sandbox_path, path, ignore=ignore_patterns('.clutter_sandbox'))
RestoreCopy(sb) == Dir(NonMeta(sb.ents))

\* faulty variant: a failed or refused answer falls back to keeping the ghost
DeletionResolution_GhostDefault(choice) ==
    IF choice = "d" THEN "delete" ELSE IF choice = "r" THEN "restore" ELSE "ghost"
\* the resolution applied for the answer read from input(): 'd', 'g', anything else restores
DeletionResolution(choice) ==
    IF choice = "d" THEN "delete" ELSE IF choice = "g" THEN "ghost" ELSE "restore"

HandleTrackedDeletion(p, choice) ==
    /\ UNCHANGED wvars
    /\ pc = "idle"
    /\ Budget
    /\ pc' = "done"
    /\ UNCHANGED <<sandboxes, snapshots, refs, last_worked, changes, now>>
    /\ IF RowsByPath(p) = {}
       THEN /\ ret' = Ret("deleted", p, "False", FALSE)
            /\ cur' = NoCur
            /\ UNCHANGED <<fs, registry>>
       ELSE \E r \in RowsByPath(p) :
            LET sb == sandboxes[r.name]
                res == DeletionResolution(choice)
            IN /\ cur' = Cur(r.name, p, NoSnap, HasGhost(sb), IF HasGhost(sb) THEN choice ELSE "")
               /\ IF ~HasGhost(sb)
                  THEN /\ registry' = SetStatusByPath(registry, p, "ghost")
                       /\ ret' = Ret("deleted", p, "False", FALSE)
                       /\ UNCHANGED fs
                  ELSE IF res \in {"delete", "ghost"}
                  THEN /\ registry' = SetStatusByPath(registry, p, "ghost")
                       /\ ret' = Ret("deleted", p, "True", TRUE)
                       /\ UNCHANGED fs
                  ELSE IF Exists(fs[p])
                  THEN \* copytree onto an existing path: FileExistsError, caught
                       /\ ret' = Ret("deleted", p, "False", TRUE)
                       /\ UNCHANGED <<fs, registry>>
                  ELSE /\ fs' = [fs EXCEPT ![p] = RestoreCopy(sb)]
                       /\ registry' = SetStatusByPath(registry, p, "tracked")
                       /\ ret' = Ret("deleted", p, "True", TRUE)

(***************************************************************************)
(* ClutterEventHandler.on_moved(event)                                     *)
(***************************************************************************)
MoveResolution(choice) ==
    IF choice = "g" THEN "ghost" ELSE IF choice = "c" THEN "cancel" ELSE "follow"

OnMoved(src, dest, choice) ==
    /\ UNCHANGED wvars
    /\ pc = "idle"
    /\ Budget
    /\ pc' = "done"
    /\ src # dest
    /\ UNCHANGED <<fs, sandboxes, snapshots, last_worked, now>>
    /\ IF RowsByPath(src) = {}
       THEN /\ ret' = Ret("moved", src, "untracked", FALSE)
            /\ cur' = NoCur
            /\ changes' = LogChange(changes, "moved", src, dest)
            /\ UNCHANGED <<registry, refs>>
       ELSE \E r \in RowsByPath(src) :
            LET res == MoveResolution(choice)
            IN /\ cur' = Cur(r.name, src, NoSnap, FALSE, choice)
               /\ IF res = "ghost"
                  THEN /\ registry' = SetStatusByPath(registry, src, "ghost")
                       /\ ret' = Ret("moved", src, "ghost", TRUE)
                       /\ changes' = LogChange(changes, "moved", src, dest)
                       /\ UNCHANGED refs
                  ELSE IF res = "cancel"
                  THEN /\ ret' = Ret("moved", src, "cancel", TRUE)
                       /\ changes' = LogChange(changes, "moved", src, dest)
                       /\ UNCHANGED <<registry, refs>>
                  ELSE IF RowsByPath(dest) # {}
                  THEN \* PRIMARY KEY(path): sqlite3.IntegrityError escapes the callback
                       /\ ret' = Ret("moved", src, "crash", TRUE)
                       /\ UNCHANGED <<registry, refs, changes>>
                  ELSE /\ registry' = SetPath(registry, src, dest)
                       /\ refs' = [refs EXCEPT ![r.name] = dest]
                       /\ ret' = Ret("moved", src, "follow", TRUE)
                       /\ changes' = LogChange(changes, "moved", src, dest)

(***************************************************************************)
(* sandbox(name)                                                           *)
(***************************************************************************)
SandboxCmd(n) ==
    /\ UNCHANGED wvars
    /\ pc = "idle"
    /\ Budget
    /\ sandboxes' = [sandboxes EXCEPT ![n] = IF Exists(@) THEN @ ELSE Dir(MetaOnly(""))]
    /\ cur' = NoCur
    /\ Finish("sandbox", n, "ok", FALSE)
    /\ UNCHANGED <<fs, snapshots, refs, registry, last_worked, changes, now>>

(***************************************************************************)
(* The user and the clock                                                  *)
(***************************************************************************)
UserShapes == {File(1), Dir([EmptyEnts EXCEPT !["a"] = FileNode(1)])}
\* the user's sandbox edits: rewrite or remove the file a, add a file b or a sub-directory b
UserEdits == {<<"a", FileNode(2)>>, <<"a", NoNode>>, <<"b", FileNode(2)>>, <<"b", DirNode(1)>>}

EnvStep ==
    /\ UNCHANGED wvars
    /\ pc = "idle"
    /\ Budget
    /\ pc' = "idle"
    /\ UNCHANGED <<cur, ret>>
    /\ UNCHANGED <<snapshots, refs, registry, last_worked, changes, now>>

EnvCreate(p, o) ==
    /\ EnvStep
    /\ ~Exists(fs[p])
    /\ fs' = [fs EXCEPT ![p] = o]
    /\ UNCHANGED sandboxes

EnvDelete(p) ==
    /\ EnvStep
    /\ Exists(fs[p])
    /\ fs' = [fs EXCEPT ![p] = Absent]
    /\ UNCHANGED sandboxes

EnvEditSandbox(n, e, node) ==
    /\ EnvStep
    /\ Exists(sandboxes[n])
    /\ sandboxes[n].ents[e] # node
    /\ sandboxes' = [sandboxes EXCEPT ![n] = Dir([@.ents EXCEPT ![e] = node])]
    /\ UNCHANGED fs

\* the clock advances at any point of an operation (the instant an operation returns is pc = "done")
Tick ==
    /\ UNCHANGED wvars
    /\ Budget
    /\ pc # "done"
    /\ now' = now + 1
    /\ UNCHANGED <<fs, sandboxes, snapshots, refs, registry, last_worked, changes, pc, cur, ret>>

Next ==
    \/ \E p \in Paths, n \in Names : TrackBegin(p, n)
    \/ TrackRef
    \/ TrackSandbox
    \/ \E x \in Names \cup Paths : PullBegin(x)
    \/ PullClear
    \/ PullCheck
    \/ PullDb
    \/ \E x \in Names \cup Paths : CommitBegin(x)
    \/ CommitTemp
    \/ CommitBak
    \/ CommitSwap
    \/ CommitRmBak
    \/ CommitFile
    \/ CommitDb
    \/ \E p \in Paths, c \in DeleteChoices : HandleTrackedDeletion(p, c)
    \/ \E src \in Paths, dest \in Paths, c \in MoveChoices : OnMoved(src, dest, c)
    \/ \E n \in Names : SandboxCmd(n)
    \/ \E p \in Paths, o \in UserShapes : EnvCreate(p, o)
    \/ \E p \in Paths : EnvDelete(p)
    \/ \E n \in Names, ed \in UserEdits : EnvEditSandbox(n, ed[1], ed[2])
    \/ Tick
    \/ Return

Spec == Init /\ [][Next]_vars

(***************************************************************************)
(* commit with a failing rename: os.rename raises OSError (permissions,    *)
(* I/O error), the exception is not caught and commit ends there.          *)
(***************************************************************************)
\* os.rename(original_path, bak_path) raises
CommitBakFails ==
    /\ UNCHANGED wvars
    /\ UNCHANGED steps
    /\ pc = "commit_bak"
    /\ Exists(fs[cur.path])
    /\ Finish("commit", cur.name, "crash", FALSE)
    /\ UNCHANGED <<fs, sandboxes, snapshots, refs, registry, last_worked, changes, now, cur>>

\* os.rename(temp_path, original_path) raises
CommitSwapFails ==
    /\ UNCHANGED wvars
    /\ UNCHANGED steps
    /\ pc = "commit_swap"
    /\ Finish("commit", cur.name, "crash", FALSE)
    /\ UNCHANGED <<fs, sandboxes, snapshots, refs, registry, last_worked, changes, now, cur>>

NextAbort ==
    \/ \E p \in Paths, n \in Names : TrackBegin(p, n)
    \/ TrackRef
    \/ TrackSandbox
    \/ \E x \in Names \cup Paths : CommitBegin(x)
    \/ CommitTemp
    \/ CommitBak
    \/ CommitBakFails
    \/ CommitSwap
    \/ CommitSwapFails
    \/ CommitRmBak
    \/ CommitFile
    \/ CommitDb
    \/ \E p \in Paths, o \in UserShapes : EnvCreate(p, o)
    \/ \E p \in Paths : EnvDelete(p)
    \/ \E n \in Names, ed \in UserEdits : EnvEditSandbox(n, ed[1], ed[2])
    \/ Tick
    \/ Return

SpecAbort == Init /\ [][NextAbort]_vars

(***************************************************************************)
(* work(name_or_path) and resume()                                         *)
(***************************************************************************)
\* name = Path(path).name.lower().replace(' ', '_'); while taken: name_1, name_2, ...
AutoName(p) ==
    IF RowsByName(Basename(p)) = {} THEN Basename(p)
    ELSE IF RowsByName(Basename(p) \o "_1") = {} THEN Basename(p) \o "_1"
    ELSE Basename(p) \o "_2"

\* os.path.exists(os.path.abspath(x)): a bare name is a relative path with nothing behind it
ArgPathExists(x) == x \in Paths /\ Exists(fs[x])

\* work(x) from its lookup on: the row is found (name stays unbound), or the path is auto-tracked
WorkCall(op, x) ==
    /\ UNCHANGED <<fs, sandboxes, snapshots, refs, registry, last_worked, changes, now>>
    /\ IF RowsByNameOrPath(x) # {}
       THEN /\ cur' = NoCur
            /\ ret' = Ret(op, x, "", FALSE)
            /\ pc' = "work_pull"
       ELSE IF ~ArgPathExists(x)
       THEN /\ cur' = NoCur
            /\ Finish(op, x, "no_path", FALSE)
       ELSE /\ cur' = [NoCur EXCEPT !.name = AutoName(x), !.path = x]
            /\ ret' = Ret(op, x, "", FALSE)
            /\ pc' = "work_track"

\* work(name_or_path); with x = "" the argument is None and the resume state is loaded
WorkBegin(x) ==
    /\ UNCHANGED wvars
    /\ pc = "idle"
    /\ Budget
    /\ IF x = "" /\ last_worked = ""
       THEN /\ cur' = NoCur
            /\ Finish("work", "", "no_previous", FALSE)
            /\ UNCHANGED <<fs, sandboxes, snapshots, refs, registry, last_worked, changes, now>>
       ELSE WorkCall("work", IF x = "" THEN last_worked ELSE x)

\* resume(): last = self._load_resume_state(); self.work(last)
Resume ==
    /\ UNCHANGED wvars
    /\ pc = "idle"
    /\ Budget
    /\ IF last_worked = ""
       THEN /\ cur' = NoCur
            /\ Finish("resume", "", "no_session", FALSE)
            /\ UNCHANGED <<fs, sandboxes, snapshots, refs, registry, last_worked, changes, now>>
       ELSE WorkCall("resume", last_worked)

\* self.track(path, name): the path exists, the name is free and the path has no row
WorkTrack ==
    /\ UNCHANGED wvars
    /\ UNCHANGED steps
    /\ pc = "work_track"
    /\ registry' = registry \cup {Row(cur.path, cur.name, "tracked", NoTime, NoTime, NoSnap)}
    /\ refs' = [refs EXCEPT ![cur.name] = cur.path]
    /\ sandboxes' = [sandboxes EXCEPT ![cur.name] = WriteMeta(sandboxes[cur.name], cur.path)]
    /\ pc' = "work_pull"
    /\ UNCHANGED <<fs, snapshots, last_worked, changes, now, cur, ret>>

\* self.pull(name_or_path if 'name' not in locals() else name), the whole call
WorkPull ==
    /\ UNCHANGED wvars
    /\ UNCHANGED steps
    /\ pc = "work_pull"
    /\ UNCHANGED <<fs, refs, changes, now, cur>>
    /\ \E r \in RowsByNameOrPath(IF cur.name # "" THEN cur.name ELSE ret.arg) :
       LET sb == sandboxes[r.name]
           dest == SnapKey(r.name, "pre_pull", now)
           snaps1 == IF HasContent(sb) THEN PutSnap(dest, PullSnapshot(sb)) ELSE snapshots
           sb1 == IF HasContent(sb) THEN ClearSandbox(sb) ELSE sb
           snap == IF HasContent(sb) THEN dest ELSE NoSnap
       IN IF HasContent(sb) /\ SnapExists(dest)
          THEN \* shutil.copytree onto an existing directory: FileExistsError leaves work
               /\ ret' = [ret EXCEPT !.res = "crash"]
               /\ pc' = "done"
               /\ UNCHANGED <<sandboxes, snapshots, registry, last_worked>>
          ELSE IF ~Exists(fs[r.path])
          THEN /\ snapshots' = snaps1
               /\ sandboxes' = [sandboxes EXCEPT ![r.name] = sb1]
               /\ registry' = SetStatusByName(registry, r.name, "ghost")
               /\ pc' = "work_print"
               /\ UNCHANGED <<last_worked, ret>>
          ELSE IF PullCopyFails(sb1, fs[r.path])
          THEN /\ snapshots' = snaps1
               /\ sandboxes' = [sandboxes EXCEPT ![r.name] = sb1]
               /\ ret' = [ret EXCEPT !.res = "crash"]
               /\ pc' = "done"
               /\ UNCHANGED <<registry, last_worked>>
          ELSE /\ snapshots' = snaps1
               /\ sandboxes' = [sandboxes EXCEPT ![r.name] = PullCopy(sb1, fs[r.path], r.path)]
               /\ registry' = SetPullMeta(registry, r.name, now, snap)
               /\ last_worked' = r.name
               /\ pc' = "work_print"
               /\ UNCHANGED ret

\* sandbox_path = BASE_PATH / 'sandboxes' / name: UnboundLocalError when the row was found
WorkPrint ==
    /\ UNCHANGED wvars
    /\ UNCHANGED steps
    /\ pc = "work_print"
    /\ pc' = "done"
    /\ ret' = [ret EXCEPT !.res = IF cur.name = "" THEN "crash" ELSE "ok"]
    /\ UNCHANGED <<fs, sandboxes, snapshots, refs, registry, last_worked, changes, now, cur>>

NextWork ==
    \/ \E x \in Names \cup Paths \cup {""} : WorkBegin(x)
    \/ Resume
    \/ WorkTrack
    \/ WorkPull
    \/ WorkPrint
    \/ \E p \in Paths, n \in Names \cup {"a", "b"} : TrackBegin(p, n)
    \/ TrackRef
    \/ TrackSandbox
    \/ \E p \in Paths, o \in UserShapes : EnvCreate(p, o)
    \/ \E p \in Paths : EnvDelete(p)
    \/ \E n \in AllNames, ed \in UserEdits : EnvEditSandbox(n, ed[1], ed[2])
    \/ Tick
    \/ Return

SpecWork == Init /\ [][NextWork]_vars

(***************************************************************************)
(* watch(paths): the callbacks of ClutterEventHandler, step by step.       *)
(* The observer delivers one notification at a time to the callback        *)
(* thread; a callback that asks for a resolution blocks in input().        *)
(***************************************************************************)
\* on_created / on_modified: if not event.is_directory: _log_change(kind, event.src_path)
\* (the observer reports a path that exists, with is_directory taken from its kind)
OnFileEvent(op, type, p, isdir) ==
    /\ UNCHANGED wvars
    /\ watch_pc = "loop"
    /\ pc = "idle"
    /\ Budget
    /\ Exists(fs[p])
    /\ isdir = IsDir(fs[p])
    /\ cur' = [NoCur EXCEPT !.path = p]
    /\ changes' = IF isdir THEN changes ELSE LogChange(changes, type, p, "")
    /\ Finish(op, p, IF isdir THEN "skipped" ELSE "logged", FALSE)
    /\ UNCHANGED <<fs, sandboxes, snapshots, refs, registry, last_worked, now>>

OnCreated(p, isdir) == OnFileEvent("on_created", "created", p, isdir)

OnModified(p, isdir) == OnFileEvent("on_modified", "modified", p, isdir)

\* on_deleted up to the prompt of handle_tracked_deletion (or through it, when it does not ask)
OnDeletedDispatch(p) ==
    /\ UNCHANGED <<fs, sandboxes, snapshots, refs, last_worked, changes, now>>
    /\ IF RowsByPath(p) = {}
       THEN /\ cur' = [NoCur EXCEPT !.path = p]
            /\ ret' = Ret("on_deleted", p, "False", FALSE)
            /\ pc' = "del_log"
            /\ UNCHANGED registry
       ELSE \E r \in RowsByPath(p) :
            /\ cur' = Cur(r.name, p, NoSnap, HasGhost(sandboxes[r.name]), "")
            /\ IF HasGhost(sandboxes[r.name])
               THEN /\ ret' = Ret("on_deleted", p, "", TRUE)
                    /\ pc' = "del_prompt"
                    /\ UNCHANGED registry
               ELSE /\ registry' = SetStatusByPath(registry, p, "ghost")
                    /\ ret' = Ret("on_deleted", p, "False", FALSE)
                    /\ pc' = "del_log"

\* a deletion the user made is reported
OnDeletedBegin(p) ==
    /\ UNCHANGED wvars
    /\ watch_pc = "loop"
    /\ pc = "idle"
    /\ Budget
    /\ OnDeletedDispatch(p)

\* the callback thread takes the next queued notification, a removal, and calls on_deleted
DeliverDeleted ==
    /\ watch_pc = "loop"
    /\ pc = "idle"
    /\ events # <<>>
    /\ Head(events).type = "deleted"
    /\ events' = Tail(events)
    /\ UNCHANGED <<watch_pc, change_log_json, steps>>
    /\ OnDeletedDispatch(Head(events).src)

\* input() returns: the resolution is applied and handle_tracked_deletion returns
OnDeletedAnswer(choice) ==
    /\ UNCHANGED wvars
    /\ pc = "del_prompt"
    /\ pc' = "del_log"
    /\ cur' = [cur EXCEPT !.choice = choice]
    /\ UNCHANGED <<sandboxes, snapshots, refs, last_worked, changes, now, steps>>
    /\ IF DeletionResolution(choice) \in {"delete", "ghost"}
       THEN /\ registry' = SetStatusByPath(registry, cur.path, "ghost")
            /\ ret' = [ret EXCEPT !.res = "True"]
            /\ UNCHANGED fs
       ELSE IF Exists(fs[cur.path])
       THEN /\ ret' = [ret EXCEPT !.res = "False"]
            /\ UNCHANGED <<fs, registry>>
       ELSE /\ fs' = [fs EXCEPT ![cur.path] = RestoreCopy(sandboxes[cur.name])]
            /\ registry' = SetStatusByPath(registry, cur.path, "tracked")
            /\ ret' = [ret EXCEPT !.res = "True"]

\* self.outer._log_change('deleted', path, ...) and the callback returns
OnDeletedLog ==
    /\ UNCHANGED wvars
    /\ pc = "del_log"
    /\ pc' = "done"
    /\ changes' = LogChange(changes, "deleted", cur.path, "")
    /\ UNCHANGED <<fs, sandboxes, snapshots, refs, registry, last_worked, now, cur, ret, steps>>

\* on_moved up to its prompt (or past the lookup, when the source has no row)
OnMovedDispatch(src, dest) ==
    /\ UNCHANGED <<fs, sandboxes, snapshots, refs, registry, last_worked, changes, now>>
    /\ IF RowsByPath(src) = {}
       THEN /\ cur' = [NoCur EXCEPT !.path = src, !.dest = dest]
            /\ ret' = Ret("on_moved", src, "untracked", FALSE)
            /\ pc' = "mv_log"
       ELSE \E r \in RowsByPath(src) :
            /\ cur' = [Cur(r.name, src, NoSnap, FALSE, "") EXCEPT !.dest = dest]
            /\ ret' = Ret("on_moved", src, "", TRUE)
            /\ pc' = "mv_prompt"

\* a rename the user made is reported: the source is gone and the destination exists
OnMovedBegin(src, dest) ==
    /\ UNCHANGED wvars
    /\ watch_pc = "loop"
    /\ pc = "idle"
    /\ Budget
    /\ src # dest
    /\ ~Exists(fs[src])
    /\ Exists(fs[dest])
    /\ OnMovedDispatch(src, dest)

\* the callback thread takes the next queued notification, a rename, and calls on_moved
DeliverMoved ==
    /\ watch_pc = "loop"
    /\ pc = "idle"
    /\ events # <<>>
    /\ Head(events).type = "moved"
    /\ events' = Tail(events)
    /\ UNCHANGED <<watch_pc, change_log_json, steps>>
    /\ OnMovedDispatch(Head(events).src, Head(events).dest)

\* input() returns: Ghost, Cancel or Follow is carried out
OnMovedAnswer(choice) ==
    /\ UNCHANGED wvars
    /\ pc = "mv_prompt"
    /\ cur' = [cur EXCEPT !.choice = choice]
    /\ UNCHANGED <<fs, sandboxes, snapshots, last_worked, changes, now, steps>>
    /\ LET res == MoveResolution(choice)
       IN IF res = "ghost"
          THEN /\ registry' = SetStatusByPath(registry, cur.path, "ghost")
               /\ ret' = [ret EXCEPT !.res = "ghost"]
               /\ pc' = "mv_log"
               /\ UNCHANGED refs
          ELSE IF res = "cancel"
          THEN /\ ret' = [ret EXCEPT !.res = "cancel"]
               /\ pc' = "mv_log"
               /\ UNCHANGED <<registry, refs>>
          ELSE IF RowsByPath(cur.dest) # {}
          THEN \* PRIMARY KEY(path): sqlite3.IntegrityError leaves the callback
               /\ ret' = [ret EXCEPT !.res = "crash"]
               /\ pc' = "done"
               /\ UNCHANGED <<registry, refs>>
          ELSE /\ registry' = SetPath(registry, cur.path, cur.dest)
               /\ refs' = [refs EXCEPT ![cur.name] = cur.dest]
               /\ ret' = [ret EXCEPT !.res = "follow"]
               /\ pc' = "mv_log"

\* self.outer._log_change('moved', src, dest_path=dest, ...) and the callback returns
OnMovedLog ==
    /\ UNCHANGED wvars
    /\ pc = "mv_log"
    /\ pc' = "done"
    /\ changes' = LogChange(changes, "moved", cur.path, cur.dest)
    /\ UNCHANGED <<fs, sandboxes, snapshots, refs, registry, last_worked, now, cur, ret, steps>>

\* the observer's dispatch thread is inside a callback
CallbackInFlight ==
    \/ pc \in {"del_prompt", "del_log", "mv_prompt", "mv_log"}
    \/ pc = "done" /\ ret.op \in {"on_created", "on_modified", "on_deleted", "on_moved"}

\* observer.schedule(...); self.monitoring = True; observer.start()
WatchStart ==
    /\ watch_pc = "off"
    /\ watch_pc' = "loop"
    /\ UNCHANGED <<fs, sandboxes, snapshots, refs, registry, last_worked, changes, now, pc, cur, ret, steps,
                   change_log_json, events>>

\* KeyboardInterrupt in "while self.monitoring: time.sleep(0.5)"; finally: observer.stop()
Sigint ==
    /\ watch_pc = "loop"
    /\ watch_pc' = "join"
    /\ UNCHANGED <<fs, sandboxes, snapshots, refs, registry, last_worked, changes, now, pc, cur, ret, steps,
                   change_log_json, events>>

\* faulty variant: only the most recent entry is dumped
SaveChangeLog_LastOnly(log) == <<log[Len(log)]>>
\* _save_change_log: json.dump(self.change_log, f) into a file opened with 'w'
SaveChangeLog(log) == log

\* observer.join() has returned; if self.change_log: self._save_change_log(); watch returns
WatchReturn ==
    /\ watch_pc = "join"
    /\ ~CallbackInFlight
    /\ watch_pc' = "exit"
    /\ change_log_json' = IF changes # <<>> THEN SaveChangeLog(changes) ELSE change_log_json
    /\ UNCHANGED <<fs, sandboxes, snapshots, refs, registry, last_worked, changes, now, pc, cur, ret, steps, events>>


NextWatch ==
    \/ WatchStart
    \/ \E p \in Paths, n \in Names : TrackBegin(p, n)
    \/ TrackRef
    \/ TrackSandbox
    \/ \E p \in Paths, o \in UserShapes : EnvCreate(p, o)
    \/ \E p \in Paths : EnvDelete(p)
    \/ \E n \in Names, ed \in UserEdits : EnvEditSandbox(n, ed[1], ed[2])
    \/ \E p \in Paths, isdir \in BOOLEAN : OnCreated(p, isdir)
    \/ \E p \in Paths, isdir \in BOOLEAN : OnModified(p, isdir)
    \/ \E p \in Paths : OnDeletedBegin(p)
    \/ \E c \in DeleteChoices : OnDeletedAnswer(c)
    \/ OnDeletedLog
    \/ \E src \in Paths, dest \in Paths : OnMovedBegin(src, dest)
    \/ \E c \in MoveChoices : OnMovedAnswer(c)
    \/ OnMovedLog
    \/ Return

SpecWatch == Init /\ [][NextWatch]_vars

\* the watcher with its interrupt (on_modified logs exactly as on_created does and is left to NextWatch)
NextStop ==
    \/ WatchStart
    \/ \E p \in Paths, n \in Names : TrackBegin(p, n)
    \/ TrackRef
    \/ TrackSandbox
    \/ \E p \in Paths : EnvDelete(p)
    \/ \E n \in Names, ed \in UserEdits : EnvEditSandbox(n, ed[1], ed[2])
    \/ \E p \in Paths, isdir \in BOOLEAN : OnCreated(p, isdir)
    \/ \E p \in Paths : OnDeletedBegin(p)
    \/ \E c \in DeleteChoices : OnDeletedAnswer(c)
    \/ OnDeletedLog
    \/ \E src \in Paths, dest \in Paths : OnMovedBegin(src, dest)
    \/ \E c \in MoveChoices : OnMovedAnswer(c)
    \/ OnMovedLog
    \/ Return
    \/ Sigint
    \/ WatchReturn

SpecStop == Init /\ [][NextStop]_vars



(***************************************************************************)
(* Properties                                                              *)
(***************************************************************************)
TrackPcs == {"track_ref", "track_sandbox"}
PullPcs == {"pull_clear", "pull_check", "pull_db"}
CommitPcs == {"commit_temp", "commit_bak", "commit_swap", "commit_rmbak", "commit_file", "commit_db"}

\* the step in which operation op is invoked; its arguments are then in cur'
Invoked(op, pcs) ==
    /\ pc = "idle"
    /\ pc' \in pcs \/ (pc' = "done" /\ ret'.op = op)

\* the rows of a registry value with the given name and path
RowsFor(reg, n, p) == {r \in reg : r.name = n /\ r.path = p}
OnlyMeta(sb) == IsDir(sb) /\ sb.ents[Meta].k = "file" /\ \A e \in UserEntries : sb.ents[e] = NoNode
UserPart(sb) == [e \in UserEntries |-> IF Exists(sb) THEN sb.ents[e] ELSE NoNode]
\* the tree a directory holds, or the one-file tree a single file at path p amounts to
TreeOf(o, p) ==
    IF IsDir(o) THEN [e \in UserEntries |-> o.ents[e]]
    ELSE [e \in UserEntries |-> IF e = Basename(p) THEN FileNode(o.v) ELSE NoNode]

(* C1: for every existing path and every unused name, track(path, name)
   goes through and leaves exactly one row with that name and path, status
   'tracked', and a sandbox holding only the metadata file. *)
C1_Original ==
    [][ /\ (Invoked("track", TrackPcs) /\ Exists(fs[cur'.path])
              /\ {r \in registry : r.name = cur'.name} = {})
            => (pc' = "track_ref" /\ Cardinality(RowsFor(registry', cur'.name, cur'.path)) = 1)
        /\ (pc = "track_sandbox" /\ pc' # pc)
            => (pc' = "done" /\ ret'.res = "ok" /\ OnlyMeta(sandboxes'[cur.name]))
      ]_vars

(* C2: a pull of a tracked item whose original exists and whose sandbox holds
   only the metadata file completes; afterwards the sandbox holds the
   original's tree (a single file under its basename) next to the metadata
   file, the row's status is 'pulled' and last_pulled is set. *)
C2_Pull ==
    (/\ pc = "done" /\ ret.op = "pull" /\ cur.name # ""
     /\ ~cur.has_content /\ Exists(fs[cur.path]))
    => /\ ret.res = "ok"
       /\ UserPart(sandboxes[cur.name]) = TreeOf(fs[cur.path], cur.path)
       /\ sandboxes[cur.name].ents[Meta].k = "file"
       /\ \A r \in registry : r.name = cur.name =>
              r.status = "pulled" /\ r.last_pulled # NoTime /\ r.last_pulled = now
       /\ \E r \in registry : r.name = cur.name

C2_Witness ==
    /\ pc = "done" /\ ret.op = "pull" /\ ret.res = "ok" /\ ~cur.has_content
    /\ IsDir(fs[cur.path]) /\ fs[cur.path].ents["a"] = FileNode(1)
    /\ sandboxes[cur.name].ents["a"] = FileNode(1)

(* C3: after every commit that completes and sets the status to
   'committed', the content at original_path equals the sandbox's content
   without the metadata file, for directory and single-file originals. *)
C3_Original ==
    (pc = "done" /\ ret.op = "commit" /\ ret.res = "ok")
    => /\ Exists(fs[cur.path])
       /\ TreeOf(fs[cur.path], cur.path) = UserPart(sandboxes[cur.name])


HasUserEntry(sb) == Exists(sb) /\ \E e \in UserEntries : sb.ents[e] # NoNode
\* a node that is, or is a sub-directory that received, a file with content c
HoldsFile(node, c) == node = FileNode(c) \/ (node.k = "dir" /\ node.v \div 10 = c)
\* a snapshot directory holding the content of original o found at path p
HoldsOriginal(snap, o, p) ==
    /\ IsDir(snap)
    /\ IF IsDir(o) THEN snap.ents = o.ents ELSE HoldsFile(snap.ents[Basename(p)], o.v)

(* C4: a commit that passes the empty-sandbox check on an item whose original
   exists first writes the snapshot pre_commit_<now>, holding the original's
   content as it is, leaving the filesystem untouched in that step (or it dies
   there because a directory snapshot of that name exists, nothing changed);
   whenever a later step of the commit renames or overwrites the original the
   snapshot exists and holds the content being replaced; and no step of the
   commit after the first changes any snapshot. *)
C4_SnapshotBeforeReplace ==
    [][ /\ (Invoked("commit", CommitPcs) /\ cur'.name # "" /\ HasUserEntry(sandboxes[cur'.name])
              /\ Exists(fs[cur'.path]))
            => /\ fs' = fs
               /\ \/ /\ pc' \in {"commit_temp", "commit_file"}
                     /\ cur'.snap = SnapKey(cur'.name, "pre_commit", now)
                     /\ cur'.snap \in DOMAIN snapshots'
                     /\ HoldsOriginal(snapshots'[cur'.snap], fs[cur'.path], cur'.path)
                     /\ \A k \in DOMAIN snapshots : k # cur'.snap => snapshots'[k] = snapshots[k]
                  \/ /\ pc' = "done" /\ ret'.res = "crash"
                     /\ IsDir(fs[cur'.path])
                     /\ SnapKey(cur'.name, "pre_commit", now) \in DOMAIN snapshots
                     /\ snapshots' = snapshots
        /\ (pc \in CommitPcs /\ pc' # pc /\ Exists(fs[cur.path]) /\ fs'[cur.path] # fs[cur.path])
            => /\ cur.snap \in DOMAIN snapshots
               /\ HoldsOriginal(snapshots[cur.snap], fs[cur.path], cur.path)
        /\ (pc \in CommitPcs /\ pc' # pc) => snapshots' = snapshots
      ]_vars

C4_Witness ==
    /\ pc = "done" /\ ret.op = "commit" /\ ret.res = "ok"
    /\ cur.snap \in DOMAIN snapshots
    /\ snapshots[cur.snap].ents["a"] = FileNode(1)
    /\ IsDir(fs[cur.path]) /\ fs[cur.path].ents["a"] = FileNode(2)

(* C5: a pull of a tracked item writes a pre_pull snapshot exactly when the
   sandbox holds an entry besides the metadata file; the snapshot is the whole
   sandbox and is written in a step that leaves the sandbox untouched (or the
   pull dies there because the snapshot directory exists, nothing changed);
   every sandbox entry a later step of the pull removes or replaces is in that
   snapshot with the same content. *)
C5_SnapshotBeforeClear ==
    [][ /\ (Invoked("pull", PullPcs) /\ cur'.name # "")
            => /\ sandboxes' = sandboxes
               /\ IF HasUserEntry(sandboxes[cur'.name])
                  THEN \/ /\ pc' = "pull_clear"
                          /\ cur'.snap = SnapKey(cur'.name, "pre_pull", now)
                          /\ cur'.snap \notin DOMAIN snapshots
                          /\ DOMAIN snapshots' = DOMAIN snapshots \cup {cur'.snap}
                          /\ snapshots'[cur'.snap] = sandboxes[cur'.name]
                          /\ \A k \in DOMAIN snapshots : snapshots'[k] = snapshots[k]
                       \/ /\ pc' = "done" /\ ret'.res = "crash"
                          /\ SnapKey(cur'.name, "pre_pull", now) \in DOMAIN snapshots
                          /\ snapshots' = snapshots
                  ELSE pc' = "pull_check" /\ snapshots' = snapshots /\ cur'.snap = NoSnap
        /\ (pc \in PullPcs /\ pc' # pc)
            => /\ snapshots' = snapshots
               /\ \A n \in Names \ {cur.name} : sandboxes'[n] = sandboxes[n]
               /\ \A e \in UserEntries :
                     (/\ Exists(sandboxes[cur.name])
                      /\ sandboxes[cur.name].ents[e] # NoNode
                      /\ sandboxes'[cur.name].ents[e] # sandboxes[cur.name].ents[e])
                     => /\ cur.snap \in DOMAIN snapshots
                        /\ snapshots[cur.snap].ents[e] = sandboxes[cur.name].ents[e]
      ]_vars

C5_Witness ==
    /\ pc = "pull_check" /\ cur.snap \in DOMAIN snapshots
    /\ snapshots[cur.snap].ents["a"] = FileNode(2)
    /\ snapshots[cur.snap].ents["b"] = DirNode(1)
    /\ OnlyMeta(sandboxes[cur.name])

(* C6: a pull of a tracked item whose original is missing ends by setting the
   row's status to 'ghost' and nothing else in the registry; none of its
   steps changes last_pulled or the resume record or puts anything into the
   sandbox, and the pre_pull snapshot it took is still there at the end. *)
C6_PullMissingOriginal ==
    [][ /\ (Invoked("pull", PullPcs) /\ cur'.name # "" /\ ~Exists(fs[cur'.path]))
            => (registry' = registry /\ sandboxes' = sandboxes /\ last_worked' = last_worked
                /\ (pc' = "done" => ret'.res = "crash" /\ snapshots' = snapshots))
        /\ (pc = "pull_clear" /\ pc' # pc /\ ~Exists(fs[cur.path]))
            => /\ registry' = registry /\ last_worked' = last_worked /\ snapshots' = snapshots
               /\ pc' = "pull_check"
               /\ \A e \in Entries : sandboxes'[cur.name].ents[e] \in {sandboxes[cur.name].ents[e], NoNode}
        /\ (pc = "pull_check" /\ pc' # pc /\ ~Exists(fs[cur.path]))
            => /\ pc' = "done" /\ ret'.res = "ghost"
               /\ \E r \in registry : r.name = cur.name
               /\ registry' = {IF r.name = cur.name THEN [r EXCEPT !.status = "ghost"] ELSE r : r \in registry}
               /\ sandboxes' = sandboxes /\ snapshots' = snapshots /\ last_worked' = last_worked
               /\ fs' = fs
               /\ cur.has_content => (cur.snap \in DOMAIN snapshots' /\ IsDir(snapshots'[cur.snap]))
      ]_vars

C6_Witness ==
    /\ pc = "done" /\ ret.op = "pull" /\ ret.res = "ghost"
    /\ cur.snap \in DOMAIN snapshots /\ snapshots[cur.snap].ents["a"] = FileNode(1)
    /\ \E r \in registry : r.name = cur.name /\ r.status = "ghost" /\ r.last_pulled # NoTime
    /\ OnlyMeta(sandboxes[cur.name])


\* the step in which handle_tracked_deletion(path) runs for a path that has a row
DeletionHandled ==
    /\ pc = "idle" /\ pc' = "done" /\ ret'.op = "deleted"
    /\ \E r \in registry : r.path = ret'.arg
\* the registry with the status of the rows at path p replaced, everything else kept
WithStatusAt(reg, p, st) == {IF r.path = p THEN [r EXCEPT !.status = st] ELSE r : r \in reg}

(* C7: when handle_tracked_deletion runs for a tracked original that is absent,
   the sandbox has content beyond the metadata file and the answer is Restore
   ('r'), then afterwards original_path is a directory whose content equals
   the sandbox's content without the metadata file (the sandbox itself is
   unchanged), the row's status is 'tracked' with nothing else in the
   registry changed, and the handler returns True. *)
C7_Restore ==
    [][ (/\ DeletionHandled
         /\ ~Exists(fs[ret'.arg])
         /\ HasUserEntry(sandboxes[cur'.name])
         /\ cur'.choice \notin {"g", "d"})
        => /\ ret'.res = "True" /\ ret'.asked
           /\ IsDir(fs'[ret'.arg])
           /\ UserPart(fs'[ret'.arg]) = UserPart(sandboxes[cur'.name])
           /\ fs'[ret'.arg].ents[Meta] = NoNode
           /\ \A q \in FsPaths \ {ret'.arg} : fs'[q] = fs[q]
           /\ sandboxes' = sandboxes
           /\ registry' = WithStatusAt(registry, ret'.arg, "tracked")
           /\ \A r \in registry' : r.path = ret'.arg => r.name = cur'.name
      ]_vars

C7_Witness ==
    /\ pc = "done" /\ ret.op = "deleted" /\ ret.res = "True" /\ cur.choice = "r"
    /\ IsDir(fs[ret.arg]) /\ fs[ret.arg].ents["a"] = FileNode(2)
    /\ UserPart(fs[ret.arg]) = UserPart(sandboxes[cur.name])
    /\ \E r \in registry : r.path = ret.arg /\ r.status = "tracked" /\ r.last_pulled # NoTime

(* C8: when handle_tracked_deletion runs for a tracked item whose sandbox has
   content and the answer is Ghost ('g') or Delete-for-real ('d'), no
   filesystem object changes (an absent original stays absent), the row keeps
   its name, path and every other field but gets status 'ghost', the sandbox
   is unchanged, and the handler returns True. *)
C8_GhostOrDelete ==
    [][ (/\ DeletionHandled
         /\ HasUserEntry(sandboxes[cur'.name])
         /\ cur'.choice \in {"g", "d"})
        => /\ ret'.res = "True" /\ ret'.asked
           /\ fs' = fs
           /\ sandboxes' = sandboxes /\ snapshots' = snapshots /\ refs' = refs
           /\ registry' = WithStatusAt(registry, ret'.arg, "ghost")
           /\ \E r \in registry' : r.path = ret'.arg /\ r.name = cur'.name /\ r.status = "ghost"
      ]_vars

C8_Witness ==
    /\ pc = "done" /\ ret.op = "deleted" /\ ret.res = "True" /\ cur.choice = "d"
    /\ ~Exists(fs[ret.arg])
    /\ HasUserEntry(sandboxes[cur.name])
    /\ \E r \in registry : r.path = ret.arg /\ r.name = cur.name /\ r.status = "ghost"

(* C9: when handle_tracked_deletion runs for a tracked item whose sandbox has
   nothing beyond the metadata file it never calls input(), sets the row's
   status to 'ghost' (nothing else in the registry changes), returns False
   and writes nothing to the filesystem. *)
C9_NoGhostCandidate ==
    [][ (/\ DeletionHandled
         /\ \A r \in registry : r.path = ret'.arg => ~HasUserEntry(sandboxes[r.name]))
        => /\ ret'.res = "False" /\ ~ret'.asked /\ cur'.choice = ""
           /\ registry' = WithStatusAt(registry, ret'.arg, "ghost")
           /\ fs' = fs /\ sandboxes' = sandboxes /\ snapshots' = snapshots /\ refs' = refs
      ]_vars

C9_Witness ==
    /\ pc = "done" /\ ret.op = "deleted" /\ ret.res = "False" /\ ~ret.asked
    /\ cur.name # "" /\ OnlyMeta(sandboxes[cur.name]) /\ ~Exists(fs[ret.arg])
    /\ \E r \in registry : r.path = ret.arg /\ r.status = "ghost"

(* C10: a deletion or move event whose source path is no row's original_path
   changes no registry row, sandbox, snapshot, ref or filesystem object and
   asks for no resolution; handle_tracked_deletion returns False. *)
C10_UntrackedEvent ==
    [][ (/\ pc = "idle" /\ pc' = "done" /\ ret'.op \in {"deleted", "moved"}
         /\ \A r \in registry : r.path # ret'.arg)
        => /\ registry' = registry /\ sandboxes' = sandboxes /\ snapshots' = snapshots
           /\ fs' = fs /\ refs' = refs /\ last_worked' = last_worked
           /\ ~ret'.asked
           /\ ret'.op = "deleted" => ret'.res = "False"
           /\ ret'.op = "moved" => ret'.res = "untracked"
      ]_vars

C10_Witness ==
    /\ pc = "done" /\ ret.op = "moved" /\ ret.res = "untracked"
    /\ registry # {} /\ \A r \in registry : r.path # ret.arg
    /\ ~Exists(fs[ret.arg])
    /\ changes # <<>>


\* the step in which on_moved(src, dest) runs for a source path that has a row
MoveHandled ==
    /\ pc = "idle" /\ pc' = "done" /\ ret'.op = "moved"
    /\ \E r \in registry : r.path = ret'.arg

(* C11: for a move event whose source is a tracked original_path exactly one
   of Follow, Ghost, Cancel is applied: Follow sets the row's original_path to
   the destination and leaves name and status as they were, Ghost sets the
   status to 'ghost' and leaves original_path, Cancel changes no row. *)
C11_Original ==
    [][ MoveHandled
        => /\ ret'.res \in {"follow", "ghost", "cancel"}
           /\ ret'.res = "follow"
                => \E dest \in Paths \ {ret'.arg} :
                      registry' = {IF r.path = ret'.arg THEN [r EXCEPT !.path = dest] ELSE r : r \in registry}
           /\ ret'.res = "ghost" => registry' = WithStatusAt(registry, ret'.arg, "ghost")
           /\ ret'.res = "cancel" => registry' = registry
      ]_vars


(* C12: track(path, name) with a path that does not exist, or with a name
   some row already has, ends at once with the matching error and leaves the
   registry, the sandboxes, the refs, the snapshots and the filesystem exactly
   as they were. *)
C12_TrackRejected ==
    [][ (/\ Invoked("track", TrackPcs)
         /\ \/ ~Exists(fs[cur'.path])
            \/ \E r \in registry : r.name = cur'.name)
        => /\ pc' = "done"
           /\ ret'.res = (IF ~Exists(fs[cur'.path]) THEN "no_path" ELSE "name_in_use")
           /\ registry' = registry /\ sandboxes' = sandboxes /\ refs' = refs
           /\ snapshots' = snapshots /\ fs' = fs /\ last_worked' = last_worked
      ]_vars

C12_Witness ==
    /\ pc = "done" /\ ret.op = "track" /\ ret.res = "name_in_use"
    /\ Exists(fs[cur.path])
    /\ \E r \in registry : r.name = cur.name /\ r.path # cur.path
    /\ \A r \in registry : r.path # cur.path


(* C13: commit on a tracked item whose sandbox is missing or holds nothing
   beyond the metadata file ends at once as 'empty': no snapshot is taken, no
   filesystem object (original, .clutter_temp, .clutter_bak) changes, and the
   registry, the sandboxes and the resume record are unchanged. *)
C13_CommitEmpty ==
    [][ (/\ Invoked("commit", CommitPcs)
         /\ cur'.name # ""
         /\ ~HasUserEntry(sandboxes[cur'.name]))
        => /\ pc' = "done" /\ ret'.res = "empty"
           /\ snapshots' = snapshots /\ fs' = fs /\ registry' = registry
           /\ sandboxes' = sandboxes /\ refs' = refs /\ last_worked' = last_worked
      ]_vars

C13_Witness ==
    /\ pc = "done" /\ ret.op = "commit" /\ ret.res = "empty"
    /\ Exists(fs[cur.path]) /\ OnlyMeta(sandboxes[cur.name])
    /\ \E r \in registry : r.name = cur.name /\ r.status = "pulled" /\ r.last_committed = NoTime


(* C14: in every reachable state no two registry rows share a name and no
   two rows share an original_path, also after a Follow onto a tracked path
   and after a track of an already-tracked path under a new name. *)
C14_UniqueNameAndPath ==
    \A r1 \in registry, r2 \in registry :
        (r1.name = r2.name \/ r1.path = r2.path) => r1 = r2

C14_Witness ==
    /\ pc = "done" /\ ret.op = "moved" /\ ret.res = "crash"
    /\ Cardinality(registry) = 2
    /\ Cardinality({r.name : r \in registry}) = 2
    /\ Cardinality({r.path : r \in registry}) = 2


Statuses == {"tracked", "pulled", "committed", "ghost"}
\* the original at p now holds what sandbox sb offers: its entries, or its file named like p
ReplacedFrom(o, sb, p) ==
    /\ Exists(o) /\ Exists(sb)
    /\ IF IsDir(o) THEN \A e \in UserEntries : o.ents[e] = sb.ents[e]
       ELSE sb.ents[Basename(p)] = FileNode(o.v)
\* outcomes of an operation that failed a precondition or was cancelled
Rejected == {"not_tracked", "empty", "no_path", "name_in_use", "cancel", "untracked"}

(* C15: every row's status is one of tracked, pulled, committed, ghost; a
   row is never removed; its status changes only to 'pulled' in the registry
   step of a pull that copied the original, to 'committed' in the registry
   step of a commit that put the sandbox's content at original_path, to
   'ghost' when a pull or the deletion handler finds the original missing or
   a Ghost / Delete resolution is applied, and from 'ghost' to 'tracked' by a
   Restore resolution; an operation that fails a precondition or is cancelled
   changes no status. *)
C15_Original ==
    [][ /\ \A r \in registry' : r.status \in Statuses
        /\ \A r \in registry : \E q \in registry' : q.name = r.name
        /\ \A r \in registry, q \in registry' :
             (q.name = r.name /\ q.status # r.status) =>
                 \/ /\ q.status = "pulled"
                    /\ pc = "pull_db" /\ cur.name = r.name
                    /\ Exists(fs[cur.path])
                    /\ UserPart(sandboxes[cur.name]) = TreeOf(fs[cur.path], cur.path)
                 \/ /\ q.status = "committed"
                    /\ pc = "commit_db" /\ cur.name = r.name
                    /\ ReplacedFrom(fs[cur.path], sandboxes[cur.name], cur.path)
                 \/ /\ q.status = "ghost"
                    /\ \/ pc = "pull_check" /\ cur.name = r.name /\ ~Exists(fs[cur.path])
                       \/ /\ pc = "idle" /\ ret'.op = "deleted" /\ ret'.arg = r.path
                          /\ (~ret'.asked \/ cur'.choice \in {"g", "d"})
                       \/ /\ pc = "idle" /\ ret'.op = "moved" /\ ret'.arg = r.path
                          /\ ret'.res = "ghost"
                 \/ /\ q.status = "tracked" /\ r.status = "ghost"
                    /\ pc = "idle" /\ ret'.op = "deleted" /\ ret'.arg = r.path
                    /\ ret'.res = "True" /\ cur'.choice \notin {"g", "d"}
        /\ (pc' = "done" /\ ret'.res \in Rejected)
             => \A r \in registry : \E q \in registry' : q.name = r.name /\ q.status = r.status
      ]_vars


(* C16: the set of snapshots only grows: no step deletes a snapshot or
   changes any part of the content of an existing one, also when two
   operations on the same item fall into the same clock second, for directory
   and single-file originals. *)
C16_Original ==
    [][ \A k \in DOMAIN snapshots :
            k \in DOMAIN snapshots' /\ snapshots'[k] = snapshots[k]
      ]_vars


(* C17: no step of a pull or commit of item A, and no deletion or move
   resolution for A's path, changes the registry row of another item B; this
   includes the steps of operations that fail or die part-way. *)
C17_OtherRowsUntouched ==
    [][ /\ (Invoked("pull", PullPcs) \/ Invoked("commit", CommitPcs))
            => \A r \in registry : r.name # cur'.name => r \in registry'
        /\ (pc \in PullPcs \cup CommitPcs /\ pc' # pc)
            => \A r \in registry : r.name # cur.name => r \in registry'
        /\ (pc = "idle" /\ pc' = "done" /\ ret'.op \in {"deleted", "moved"})
            => \A r \in registry : r.path # ret'.arg => r \in registry'
      ]_vars

C17_Witness ==
    /\ pc = "done" /\ ret.op = "pull" /\ ret.res = "ok"
    /\ \E r \in registry : r.name = cur.name /\ r.status = "pulled"
    /\ \E r \in registry : r.name # cur.name /\ r.status = "tracked" /\ r.last_pulled = NoTime


(* C18: the deletion handler has no default: when the answer read is none of
   Restore ('r'), Ghost ('g'), Delete-for-real ('d') it applies none of them
   and changes neither the filesystem nor the registry. *)
C18_Original ==
    [][ (/\ DeletionHandled
         /\ ret'.asked
         /\ cur'.choice \notin {"r", "g", "d"})
        => /\ fs' = fs
           /\ registry' = registry
      ]_vars

\* the watcher callbacks and the kind each one logs
WatchOps == {"on_created", "on_modified", "on_deleted", "on_moved"}
KindOf(op) ==
    IF op = "on_created" THEN "created"
    ELSE IF op = "on_modified" THEN "modified"
    ELSE IF op = "on_deleted" THEN "deleted"
    ELSE "moved"
\* this step is the return of a watcher callback to the observer
CallbackReturns == pc # "done" /\ pc' = "done" /\ ret'.op \in WatchOps

\* C19: every notification delivered to the watcher (created, deleted, moved or
\* modified; for a file or a directory) appends exactly one ChangeEvent with the
\* matching kind, the source path and, for moves, the destination path: the
\* callback returns having appended that one entry, and nothing else appends.
C19_Original ==
    [][ /\ CallbackReturns =>
            /\ Len(changes') = Len(changes) + 1
            /\ changes'[Len(changes')].type = KindOf(ret'.op)
            /\ changes'[Len(changes')].path = ret'.arg
            /\ changes'[Len(changes')].dest = cur'.dest
        /\ (changes' # changes) => CallbackReturns ]_vars

\* the callback is between its lookup and its return
WatchPcs == {"del_prompt", "del_log", "mv_prompt", "mv_log"}
\* the resolution chosen for the event in cur/ret is in the registry and the filesystem
DecisionApplied ==
    IF ret.op = "on_deleted"
    THEN IF DeletionResolution(cur.choice) \in {"delete", "ghost"}
         THEN /\ ret.res = "True"
              /\ \E r \in registry : r.name = cur.name /\ r.path = cur.path /\ r.status = "ghost"
         ELSE \/ /\ ret.res = "True"
                 /\ IsDir(fs[cur.path])
                 /\ UserPart(fs[cur.path]) = UserPart(sandboxes[cur.name])
                 /\ \E r \in registry : r.name = cur.name /\ r.path = cur.path /\ r.status = "tracked"
              \/ ret.res = "False"     \* the copy was refused: the path exists again
    ELSE IF MoveResolution(cur.choice) = "ghost"
         THEN /\ ret.res = "ghost"
              /\ \E r \in registry : r.name = cur.name /\ r.path = cur.path /\ r.status = "ghost"
         ELSE IF MoveResolution(cur.choice) = "cancel"
         THEN /\ ret.res = "cancel"
              /\ \E r \in registry : r.name = cur.name /\ r.path = cur.path
         ELSE \/ /\ ret.res = "follow"
                 /\ \E r \in registry : r.name = cur.name /\ r.path = cur.dest
                 /\ RowsByPath(cur.path) = {}
                 /\ refs[cur.name] = cur.dest
              \/ ret.res = "crash"     \* the UPDATE was refused by the key on path

(* C20: for a delete or move event of a tracked path whose resolution is asked
   for, the callback reaches its logging step and its return only with the
   resolution in the registry and the filesystem (or refused as a whole);
   while the callback is between lookup and return it stays on the same event,
   nothing is logged for another event and no other callback starts, so a
   callback starts only when none is running. *)
C20_DecisionBeforeReturn ==
    [][ /\ (/\ pc' \in {"del_log", "mv_log", "done"}
            /\ ret'.op \in {"on_deleted", "on_moved"}
            /\ ret'.asked)
           => DecisionApplied'
        /\ (pc \in {"del_prompt", "mv_prompt"})
           => /\ pc' \in {"del_log", "mv_log", "done"}
              /\ changes' = changes
        /\ (pc \in WatchPcs)
           => /\ pc' \in WatchPcs \cup {"done"}
              /\ ret'.op = ret.op /\ ret'.arg = ret.arg /\ ret'.asked = ret.asked
              /\ cur'.name = cur.name /\ cur'.path = cur.path /\ cur'.dest = cur.dest
        /\ (pc \notin WatchPcs /\ (pc' \in WatchPcs \/ CallbackReturns))
           => pc = "idle" ]_vars

C20_Witness ==
    /\ pc = "done" /\ ret.op = "on_moved" /\ ret.asked /\ ret.res = "follow"
    /\ \E r \in registry : r.name = cur.name /\ r.path = cur.dest
    /\ refs[cur.name] = cur.dest
    /\ changes # <<>> /\ changes[Len(changes)].type = "moved"

(* C21: after the interrupt in the monitoring loop no callback starts any
   more (a callback already running finishes and logs), and when watch has
   returned every entry of the change log is in change_log.json, in order;
   nothing is logged after the return. *)
C21_FlushOnInterrupt ==
    [][ /\ (pc \notin WatchPcs /\ (pc' \in WatchPcs \/ CallbackReturns)) => watch_pc = "loop"
        /\ (watch_pc # "exit" /\ watch_pc' = "exit")
           => /\ watch_pc = "join"
              /\ ~CallbackInFlight
              /\ changes # <<>> => change_log_json' = changes
        /\ (watch_pc = "exit")
           => /\ changes' = changes
              /\ change_log_json' = change_log_json
              /\ watch_pc' = "exit" ]_vars

C21_Witness ==
    /\ watch_pc = "exit"
    /\ Len(changes) >= 2
    /\ change_log_json = changes
    /\ \E i \in 1..Len(changes) : changes[i].type = "moved"

\* this step is the return of work(x) for an x that had no row when work looked it up
WorkUntrackedReturns ==
    /\ pc # "done" /\ pc' = "done" /\ ret'.op = "work" /\ ret'.arg # ""
    /\ \/ pc = "idle" /\ RowsByNameOrPath(ret'.arg) = {}
       \/ pc \in {"work_pull", "work_print"} /\ cur.name # ""
\* the project behind the argument exists: the path given, or for a name some original not yet tracked
ProjectExists(x) ==
    IF x \in Paths THEN Exists(fs[x])
    ELSE \E q \in Paths : Exists(fs[q]) /\ RowsByPath(q) = {}

(* C22: after work is invoked for an existing project that is not yet
   tracked (given by name or by path), a row for the project exists with its
   original path, the project's sandbox holds a copy of the original's
   files, and the saved resume state is the name of that item. *)
C22_Original ==
    [][ (WorkUntrackedReturns /\ ProjectExists(ret'.arg))
        => \E r \in registry' :
              /\ r.name = ret'.arg \/ r.path = ret'.arg
              /\ Exists(fs'[r.path])
              /\ UserPart(sandboxes'[r.name]) = TreeOf(fs'[r.path], r.path)
              /\ last_worked' = r.name ]_vars

(* C23: resume, when the saved last-worked name is the name of a tracked
   item, completes normally: it ends without an error outcome, having
   reached the line that reports the item's sandbox. *)
C23_Original ==
    [][ (/\ pc # "done" /\ pc' = "done" /\ ret'.op = "resume"
         /\ RowsByName(ret'.arg) # {})
        => /\ ret'.res = "ok"
           /\ pc = "work_print" ]_vars

\* the positions of commit's replace sequence, and commit's return
ReplacePcs == {"commit_temp", "commit_bak", "commit_swap", "commit_rmbak", "commit_db"}
InReplace == pc \in ReplacePcs \/ (pc = "done" /\ ret.op = "commit" /\ ret.res \in {"ok", "crash"})
\* object o is the complete new content: a directory with exactly the sandbox's entries, metadata file left out
IsNewContent(o, sb) == IsDir(o) /\ UserPart(o) = UserPart(sb) /\ o.ents[Meta] = NoNode

(* C24: during commit's replace sequence for a directory original (copy to
   <path>.clutter_temp, rename the original to <path>.clutter_bak, rename
   temp to the original path, remove bak), in every intermediate state and
   at the end, the complete old original or the complete new content is at
   one of original_path, <path>.clutter_temp, <path>.clutter_bak. *)
C24_OldOrNewPresent ==
    (InReplace /\ IsDir(cur.orig))
    => \E q \in {cur.path, TempPath(cur.path), BakPath(cur.path)} :
           \/ fs[q] = cur.orig
           \/ IsNewContent(fs[q], sandboxes[cur.name])

C24_Witness ==
    /\ pc = "commit_swap" /\ IsDir(cur.orig)
    /\ ~Exists(fs[cur.path])
    /\ fs[BakPath(cur.path)] = cur.orig
    /\ IsNewContent(fs[TempPath(cur.path)], sandboxes[cur.name])
    /\ ~IsNewContent(cur.orig, sandboxes[cur.name])

(* C25: the registry never over-reports progress: in every state, also in
   the middle of track (the states a crash leaves behind), a row that exists
   has the filesystem effects it stands for: its sandbox with the metadata
   file and its ref pointing at the original path. *)
C25_Original ==
    \A r \in registry :
        /\ IsDir(sandboxes[r.name])
        /\ sandboxes[r.name].ents[Meta].k = "file"
        /\ refs[r.name] = r.path

\* nothing the operation could damage has changed in this step, and the operation is over
AbortedUntouched ==
    /\ pc' = "done" /\ ret'.res = "crash"
    /\ fs' = fs /\ sandboxes' = sandboxes /\ snapshots' = snapshots
    /\ registry' = registry /\ refs' = refs /\ last_worked' = last_worked

(* C26: if taking the snapshot fails in pull or commit (here: the snapshot
   destination of this second already exists and copytree refuses it), the
   operation aborts before any destructive step: pull has removed no sandbox
   entry, commit has neither renamed nor overwritten the original nor
   touched temp or bak, no snapshot is altered and the registry row is
   unchanged. *)
C26_SnapshotFailureAborts ==
    [][ /\ (/\ Invoked("pull", PullPcs) /\ cur'.name # ""
            /\ HasContent(sandboxes[cur'.name])
            /\ SnapKey(cur'.name, "pre_pull", now) \in DOMAIN snapshots)
           => AbortedUntouched
        /\ (/\ Invoked("commit", CommitPcs) /\ cur'.name # ""
            /\ HasContent(sandboxes[cur'.name])
            /\ IsDir(fs[cur'.path])
            /\ SnapKey(cur'.name, "pre_commit", now) \in DOMAIN snapshots)
           => AbortedUntouched ]_vars

C26_Witness ==
    /\ pc = "done" /\ ret.op = "commit" /\ ret.res = "crash"
    /\ IsDir(fs[cur.path]) /\ HasContent(sandboxes[cur.name])
    /\ cur.snap \in DOMAIN snapshots
    /\ ~Exists(fs[TempPath(cur.path)])
    /\ \E r \in registry : r.name = cur.name /\ r.status = "committed"

(* C27: if a step of commit fails after the temporary copy is complete and
   before the new content is in place at original_path (one of the two
   renames), commit aborts with the original's old content still at
   original_path, the registry unchanged and the temporary directory left
   in place. *)
C27_Original ==
    [][ (/\ pc \in {"commit_bak", "commit_swap"}
         /\ pc' = "done" /\ ret'.res = "crash")
        => /\ fs'[cur.path] = cur.orig
           /\ registry' = registry
           /\ Exists(fs'[TempPath(cur.path)])
           /\ fs'[TempPath(cur.path)] = fs[TempPath(cur.path)] ]_vars

(* C28: a <path>.clutter_temp left behind by an aborted commit is never
   deleted or replaced by a later operation: while it is not the temporary
   copy of the commit now between its copy and its swap, every step leaves
   it as it is. *)
C28_Original ==
    [][ \A p \in Paths :
            (/\ Exists(fs[TempPath(p)])
             /\ ~(pc \in {"commit_bak", "commit_swap"} /\ cur.path = p))
            => fs'[TempPath(p)] = fs[TempPath(p)] ]_vars

(* C29: for an item whose original is a single file, commit never creates
   <path>.clutter_temp or <path>.clutter_bak and never renames the original,
   whatever the sandbox contains: no step of such a commit changes the temp
   or bak path or takes the original away from its path. *)
C29_Original ==
    [][ (pc \in CommitPcs /\ cur.orig.kind = "file")
        => /\ fs'[TempPath(cur.path)] = fs[TempPath(cur.path)]
           /\ fs'[BakPath(cur.path)] = fs[BakPath(cur.path)]
           /\ Exists(fs'[cur.path]) ]_vars

(* C30: in every reachable state a row with status 'tracked' means no
   working copy yet: the item's sandbox holds nothing beyond the metadata
   file. *)
C30_Original ==
    \A r \in registry :
        r.status = "tracked" => ~HasContent(sandboxes[r.name])

\* the snapshots taken so far for the item named n
SnapsOf(n) == {k \in DOMAIN snapshots : k.name = n}

(* C31: between operations, every row whose item has had at least one
   snapshot taken records a snapshot of that item in snapshot_path, and no
   snapshot of the item is more recent than the recorded one. *)
C31_Original ==
    pc = "idle" =>
        \A r \in registry :
            SnapsOf(r.name) # {} =>
                /\ r.snapshot_path \in SnapsOf(r.name)
                /\ \A k \in SnapsOf(r.name) : k.ts <= r.snapshot_path.ts

(* C32: when a pull of a sandbox that held user content finds the original
   missing, the sandbox still holds that content when the pull returns, so
   that the commit that follows has it to recreate the original from. *)
C32_Original ==
    [][(pc = "pull_check" /\ pc' = "done" /\ ret'.res = "ghost" /\ cur.has_content)
          => /\ HasContent(sandboxes'[cur.name])
             /\ UserPart(sandboxes'[cur.name]) = UserPart(SnapAt(cur.snap))]_vars

(* C33: the persisted last-worked record changes only in the last step of a
   pull that returns successfully, and that step sets it to the pulled item's
   name; every other step (of track, of commit, of a pull that fails, of the
   deletion and move handlers, of the user) leaves it as it was. *)
C33_ResumeOnlyAfterPull ==
    [][/\ last_worked' # last_worked =>
             pc = "pull_db" /\ pc' = "done" /\ ret'.op = "pull" /\ ret'.res = "ok"
       /\ (pc = "pull_db" /\ pc' = "done") => last_worked' = cur.name
       /\ (pc' = "done" /\ pc # "done" /\ ~(ret'.op = "pull" /\ ret'.res = "ok")) =>
             last_worked' = last_worked]_vars

\* a commit has returned successfully for an item other than the one a pull recorded
C33_Witness ==
    /\ pc = "done" /\ ret.op = "commit" /\ ret.res = "ok"
    /\ last_worked \in Names \ {cur.name}

(* C34: when work or resume is invoked on an item that is already tracked and
   whose sandbox already holds a working copy, the step that runs its pull
   leaves every sandbox as it is and takes no snapshot. *)
C34_Original ==
    [][(/\ pc = "work_pull"
        /\ cur.name = ""
        /\ \E r \in RowsByNameOrPath(ret.arg) : HasContent(sandboxes[r.name]))
          => sandboxes' = sandboxes /\ snapshots' = snapshots]_vars

(***************************************************************************)
(* A watcher running on the directory that holds the originals while the   *)
(* tool commits: the renames of commit's replace sequence reach the        *)
(* observer as notifications, which the callback thread handles once the   *)
(* commit has returned.  Every original is a directory.                    *)
(***************************************************************************)
InitDirs ==
    /\ Init
    /\ \A p \in Paths : fs[p].kind # "file"

\* clutter commit <name> for an item whose original_path is one of the project paths
CommitInTree(x) ==
    /\ \A r \in RowsByNameOrPath(x) : r.path \in Paths
    /\ CommitBegin(x)

NextConc ==
    \/ WatchStart
    \/ \E p \in Paths, n \in Names : TrackBegin(p, n)
    \/ TrackRef
    \/ TrackSandbox
    \/ \E n \in Names, ed \in UserEdits : EnvEditSandbox(n, ed[1], ed[2])
    \/ \E x \in Names : CommitInTree(x)
    \/ CommitTemp
    \/ CommitBak
    \/ CommitSwap
    \/ CommitRmBak
    \/ CommitDb
    \/ DeliverMoved
    \/ \E c \in MoveChoices : OnMovedAnswer(c)
    \/ OnMovedLog
    \/ DeliverDeleted
    \/ \E c \in DeleteChoices : OnDeletedAnswer(c)
    \/ OnDeletedLog
    \/ Tick
    \/ Return

SpecConc == InitDirs /\ [][NextConc]_vars

(* C35: with a watcher running on the directory of a tracked directory
   original, the notifications a commit of that item causes never bring the
   watcher to ask for a recovery decision, and once the commit has returned
   and all its notifications are handled, a committed row still has its
   original_path and status 'committed'. *)
C35_Original ==
    /\ pc \notin {"mv_prompt", "del_prompt"}
    /\ (pc = "idle" /\ events = <<>>) =>
           \A r \in registry :
               r.last_committed # NoTime => r.status = "committed" /\ r.path \in Paths

\* the second half of C35 alone: the state after commit and its notifications
C35_AfterEvents ==
    (pc = "idle" /\ events = <<>>) =>
        \A r \in registry :
            r.last_committed # NoTime => r.status = "committed" /\ r.path \in Paths

(***************************************************************************)
(* commit with crashes: the process may die at any step of the replace     *)
(* sequence, leaving the filesystem as that step found it.                 *)
(***************************************************************************)
\* the process is killed between two statements of lines 957-985
CommitKilled ==
    /\ UNCHANGED wvars
    /\ UNCHANGED steps
    /\ pc \in {"commit_temp", "commit_bak", "commit_swap", "commit_rmbak", "commit_db"}
    /\ Finish("commit", cur.name, "killed", FALSE)
    /\ UNCHANGED <<fs, sandboxes, snapshots, refs, registry, last_worked, changes, now, cur>>

\* commit and its crashes alone: nobody else touches the originals
NextRerun ==
    \/ \E p \in Paths, n \in Names : TrackBegin(p, n)
    \/ TrackRef
    \/ TrackSandbox
    \/ \E n \in Names, ed \in UserEdits : EnvEditSandbox(n, ed[1], ed[2])
    \/ \E x \in Names : CommitBegin(x)
    \/ CommitTemp
    \/ CommitBak
    \/ CommitSwap
    \/ CommitRmBak
    \/ CommitFile
    \/ CommitDb
    \/ Tick
    \/ Return

NextCrash == NextRerun \/ CommitKilled

SpecCrash == Init /\ [][NextCrash]_vars

(* C36: whatever crashes of commit came before, a commit that enters its
   replace sequence and is not itself killed completes successfully: no step
   of the sequence dies, its last step leaves the sandbox content at
   original_path and neither <path>.clutter_temp nor <path>.clutter_bak, and
   the registry update then sets status 'committed'. *)
C36_Original ==
    [][/\ (pc \in {"commit_temp", "commit_bak", "commit_swap", "commit_rmbak"} /\ pc' = "done")
             => ret'.res = "killed"
       /\ (pc = "commit_rmbak" /\ pc' = "commit_db")
             => /\ IsNewContent(fs'[cur.path], sandboxes[cur.name])
                /\ ~Exists(fs'[TempPath(cur.path)])
                /\ ~Exists(fs'[BakPath(cur.path)])
       /\ (pc = "commit_db" /\ pc' = "done" /\ ret'.res # "killed")
             => /\ ret'.res = "ok"
                /\ \A r \in registry' : r.name = cur.name => r.status = "committed"]_vars

(***************************************************************************)
(* Items tracked from single files: every original is a regular file at    *)
(* the start, and the user only deletes originals, so whatever is at a     *)
(* tracked path later was put there by the tool.                           *)
(***************************************************************************)
InitFiles ==
    /\ Init
    /\ \A p \in Paths : fs[p].kind # "dir"

NextFiles ==
    \/ \E p \in Paths, n \in Names : TrackBegin(p, n)
    \/ TrackRef
    \/ TrackSandbox
    \/ \E x \in Names : PullBegin(x)
    \/ PullClear
    \/ PullCheck
    \/ PullDb
    \/ \E x \in Names : CommitBegin(x)
    \/ CommitTemp
    \/ CommitBak
    \/ CommitSwap
    \/ CommitRmBak
    \/ CommitFile
    \/ CommitDb
    \/ \E p \in Paths, c \in DeleteChoices : HandleTrackedDeletion(p, c)
    \/ \E p \in Paths : EnvDelete(p)
    \/ \E n \in Names, ed \in UserEdits : EnvEditSandbox(n, ed[1], ed[2])
    \/ Return

SpecFiles == InitFiles /\ [][NextFiles]_vars

(* C37: for items tracked from a single file, whenever no operation is in
   progress the original of every row, if it exists, is a regular file:
   neither a Restore resolution nor a commit has put a directory there. *)
C37_Original ==
    pc \in {"idle", "done"} =>
        \A r \in registry : Exists(fs[r.path]) => fs[r.path].kind = "file"

\* the sandbox named n holds exactly the content of object o found at path p
MirrorsOriginal(sb, o, p) == Exists(o) /\ UserPart(sb) = TreeOf(o, p)

(* C38: a successful pull leaves the original untouched and the sandbox
   holding exactly the original's content; and a commit that starts from such
   a sandbox (as it does when it follows the pull with no edit in between)
   leaves at original_path an object of the same kind and content as it
   found there, whether it completes, finds nothing to commit or dies; for
   directory originals and single-file originals alike. *)
C38_PullCommitRoundTrip ==
    [][/\ (pc = "pull_db" /\ pc' = "done")
             => /\ fs' = fs
                /\ MirrorsOriginal(sandboxes'[cur.name], fs[cur.path], cur.path)
       /\ (/\ Invoked("commit", CommitPcs)
           /\ \E r \in registry : /\ ret'.arg \in {r.name, r.path} \/ cur'.name = r.name
                                  /\ MirrorsOriginal(sandboxes[r.name], fs[r.path], r.path))
             => fs' = fs
       /\ (/\ pc \in CommitPcs /\ pc' = "done"
           /\ MirrorsOriginal(sandboxes[cur.name], cur.orig, cur.path))
             => /\ fs'[cur.path].kind = cur.orig.kind
                /\ TreeOf(fs'[cur.path], cur.path) = TreeOf(cur.orig, cur.path)]_vars

\* a commit of a pulled single-file item has completed from a sandbox that mirrored the original
C38_Witness ==
    /\ pc = "done" /\ ret.op = "commit" /\ ret.res = "ok"
    /\ cur.orig.kind = "file"
    /\ MirrorsOriginal(sandboxes[cur.name], cur.orig, cur.path)
    /\ fs[cur.path] = cur.orig
    /\ \E r \in registry : r.name = cur.name /\ r.last_pulled # NoTime /\ r.last_pulled <= r.last_committed

(* C39: when handle_tracked_deletion runs for a tracked path whose sandbox has
   content, the answer is Restore (anything but 'd' and 'g') and original_path
   exists when the copy is attempted, the copy fails: the call returns False
   and leaves the registry, every sandbox and the filesystem as they were. *)
C39_FailedRestoreChangesNothing ==
    [][(/\ DeletionHandled
        /\ cur'.has_content
        /\ cur'.choice \notin {"d", "g"}
        /\ Exists(fs[ret'.arg]))
          => /\ ret'.res = "False"
             /\ registry' = registry
             /\ sandboxes' = sandboxes
             /\ fs' = fs]_vars

\* Restore was answered by pressing Enter for a pulled item whose original exists, and failed
C39_Witness ==
    /\ pc = "done" /\ ret.op = "deleted" /\ ret.res = "False" /\ ret.asked
    /\ cur.has_content /\ cur.choice = ""
    /\ Exists(fs[ret.arg])
    /\ \E r \in registry : r.path = ret.arg /\ r.status = "pulled" /\ HasContent(sandboxes[r.name])

====
